---- MODULE Spec2Model ----
(***************************************************************************)
(* Model of question-generator.py: QuestionGenerator.generate_questions,   *)
(* QuestionGenerator.upload_questions and the driver main().               *)
(*                                                                         *)
(* Python str values are sequences of one-character strings.  Python       *)
(* values produced by json.loads are tagged records:                       *)
(*   [t |-> "list", v |-> <<values>>]   [t |-> "dict", v |-> key -> value] *)
(*   [t |-> "str",  v |-> chars]        [t |-> "num",  v |-> lexeme]       *)
(*   [t |-> "bool", v |-> b]            [t |-> "none", v |-> <<>>]         *)
(***************************************************************************)
EXTENDS Integers, Sequences, FiniteSets, TLC

VARIABLES
  pc,         \* position of the running call / of main's loop
  idx,        \* main: index into CATEGORIES of the category being processed
  args,       \* arguments of the call being made, as the caller passed them
  completion, \* what client.chat.completions.create does for this call
  prompt,     \* the prompt last handed to the completion client
  questions,  \* main's `questions`: generate's return, upload's argument
  http,       \* what requests.post does for this call
  result,     \* upload_questions' return value
  raised,     \* the exception that left the call uncaught, or "none"
  posts,      \* json payloads handed to requests.post, in order
  calls       \* the calls made so far, in order

vars == <<pc, idx, args, completion, prompt, questions, http,
          result, raised, posts, calls>>

(***************************************************************************)
(* Text helpers                                                            *)
(***************************************************************************)
CharsOf(s) == {s[i] : i \in DOMAIN s}

At(s, i) == IF i \in DOMAIN s THEN s[i] ELSE "EOF"

\* str.strip() with no argument removes whitespace
Whitespace == {" ", "\n", "\t", "\r"}

RECURSIVE LStrip(_, _)
LStrip(s, cs) ==
  IF s # <<>> /\ Head(s) \in cs THEN LStrip(Tail(s), cs) ELSE s

RECURSIVE RStrip(_, _)
RStrip(s, cs) ==
  IF s # <<>> /\ s[Len(s)] \in cs THEN RStrip(SubSeq(s, 1, Len(s) - 1), cs) ELSE s

\* str.strip(chars): chars is a set of characters, removed from both ends
StripChars(s, cs) == RStrip(LStrip(s, cs), cs)

\* The grave accent (the fence character) cannot be written inside a string
\* of this language; the one-character string holding it is written BT.
BT == "GRAVE"

FenceJson == <<BT, BT, BT, "j", "s", "o", "n">>
Fence == <<BT, BT, BT>>

\* CleanContent without its last strip(): the newlines inside the fence stay
CleanContentNoFinalStrip(c) ==
  StripChars(StripChars(StripChars(c, Whitespace), CharsOf(FenceJson)),
             CharsOf(Fence))

\* content.strip().strip(FenceJson).strip(Fence).strip()
CleanContent(c) ==
  StripChars(StripChars(StripChars(StripChars(c, Whitespace),
                                   CharsOf(FenceJson)),
                        CharsOf(Fence)),
             Whitespace)

(***************************************************************************)
(* json.loads, on texts without escapes, signs or fractions                *)
(***************************************************************************)
Digits == {"0", "1", "2", "3", "4", "5", "6", "7", "8", "9"}
ControlChars == {"\n", "\t", "\r"}

PyList(items) == [t |-> "list", v |-> items]
PyDict(f) == [t |-> "dict", v |-> f]
PyStr(chars) == [t |-> "str", v |-> chars]
PyNum(lexeme) == [t |-> "num", v |-> lexeme]
PyBool(b) == [t |-> "bool", v |-> b]
PyNone == [t |-> "none", v |-> <<>>]

EmptyMap == <<>>
MapSet(f, k, x) == [y \in DOMAIN f \cup {k} |-> IF y = k THEN x ELSE f[y]]

Fail(i) == [ok |-> FALSE, val |-> PyNone, pos |-> i]
Ok(x, i) == [ok |-> TRUE, val |-> x, pos |-> i]

RECURSIVE SkipWS(_, _)
SkipWS(s, i) == IF At(s, i) \in Whitespace THEN SkipWS(s, i + 1) ELSE i

RECURSIVE SkipDigits(_, _)
SkipDigits(s, i) == IF At(s, i) \in Digits THEN SkipDigits(s, i + 1) ELSE i

\* s[i] is the opening quote; the string ends at the next quote
RECURSIVE ScanString(_, _)
ScanString(s, j) ==
  IF At(s, j) = "\"" THEN j
  ELSE IF At(s, j) = "EOF" \/ At(s, j) \in ControlChars THEN 0
  ELSE ScanString(s, j + 1)

ParseString(s, i) ==
  LET j == ScanString(s, i + 1)
  IN  IF j = 0 THEN Fail(i) ELSE Ok(PyStr(SubSeq(s, i + 1, j - 1)), j + 1)

ParseNumber(s, i) ==
  LET intEnd == IF At(s, i) = "0" THEN i + 1 ELSE SkipDigits(s, i)
      expEnd == IF At(s, intEnd) \in {"e", "E"} /\ At(s, intEnd + 1) \in Digits
                THEN SkipDigits(s, intEnd + 1) ELSE intEnd
  IN  Ok(PyNum(SubSeq(s, i, expEnd - 1)), expEnd)

Literals == {<<"n", "u", "l", "l">>, <<"t", "r", "u", "e">>,
             <<"f", "a", "l", "s", "e">>}
LiteralValue(w) ==
  IF w = <<"n", "u", "l", "l">> THEN PyNone ELSE PyBool(w = <<"t", "r", "u", "e">>)

StartsAt(s, i, w) == i + Len(w) - 1 <= Len(s) /\ SubSeq(s, i, i + Len(w) - 1) = w

RECURSIVE ParseValue(_, _)
RECURSIVE ParseElems(_, _, _)
RECURSIVE ParseMembers(_, _, _)

ParseElems(s, i, acc) ==
  LET e == ParseValue(s, i)
      k == SkipWS(s, e.pos)
  IN  IF ~e.ok THEN Fail(i)
      ELSE IF At(s, k) = "," THEN ParseElems(s, SkipWS(s, k + 1), Append(acc, e.val))
      ELSE IF At(s, k) = "]" THEN Ok(PyList(Append(acc, e.val)), k + 1)
      ELSE Fail(k)

ParseMembers(s, i, acc) ==
  IF At(s, i) # "\"" THEN Fail(i)
  ELSE
    LET key == ParseString(s, i)
        c == SkipWS(s, key.pos)
        e == ParseValue(s, SkipWS(s, c + 1))
        k == SkipWS(s, e.pos)
        next == MapSet(acc, key.val.v, e.val)
    IN  IF ~key.ok \/ At(s, c) # ":" THEN Fail(i)
        ELSE IF ~e.ok THEN Fail(i)
        ELSE IF At(s, k) = "," THEN ParseMembers(s, SkipWS(s, k + 1), next)
        ELSE IF At(s, k) = "}" THEN Ok(PyDict(next), k + 1)
        ELSE Fail(k)

ParseValue(s, i) ==
  LET ch == At(s, i)
  IN  IF ch = "\"" THEN ParseString(s, i)
      ELSE IF ch = "[" THEN
        (IF At(s, SkipWS(s, i + 1)) = "]"
         THEN Ok(PyList(<<>>), SkipWS(s, i + 1) + 1)
         ELSE ParseElems(s, SkipWS(s, i + 1), <<>>))
      ELSE IF ch = "{" THEN
        (IF At(s, SkipWS(s, i + 1)) = "}"
         THEN Ok(PyDict(EmptyMap), SkipWS(s, i + 1) + 1)
         ELSE ParseMembers(s, SkipWS(s, i + 1), EmptyMap))
      ELSE IF ch \in Digits THEN ParseNumber(s, i)
      ELSE IF \E w \in Literals : StartsAt(s, i, w)
        THEN LET w == CHOOSE x \in Literals : StartsAt(s, i, x)
             IN  Ok(LiteralValue(w), i + Len(w))
      ELSE Fail(i)

\* json.loads(content): [ok |-> FALSE] stands for json.JSONDecodeError
JsonLoads(s) ==
  LET e == ParseValue(s, SkipWS(s, 1))
  IN  IF e.ok /\ SkipWS(s, e.pos) > Len(s) THEN [ok |-> TRUE, val |-> e.val]
      ELSE [ok |-> FALSE, val |-> PyNone]

(***************************************************************************)
(* QuestionGenerator.generate_questions                                    *)
(***************************************************************************)
Max(a, b) == IF a >= b THEN a ELSE b
Min(a, b) == IF a <= b THEN a ELSE b

K_text == <<"t", "e", "x", "t">>
K_answer == <<"a", "n", "s", "w", "e", "r">>
K_category == <<"c", "a", "t", "e", "g", "o", "r", "y">>
K_filler_answers ==
  <<"f", "i", "l", "l", "e", "r", "_", "a", "n", "s", "w", "e", "r", "s">>
K_questions == <<"q", "u", "e", "s", "t", "i", "o", "n", "s">>

\* ClampQuestions with max and min exchanged
ClampQuestionsSwapped(n) == Min(1, Max(10, n))

\* num_questions = max(1, min(10, num_questions))
ClampQuestions(n) == Max(1, Min(10, n))
\* num_fillers = max(3, min(5, num_fillers))
ClampFillers(f) == Max(3, Min(5, f))

\* the f-string prompt, by the three values interpolated into it
BuildPrompt(category, n, f) ==
  [num_questions |-> ClampQuestions(n), category |-> category,
   num_fillers |-> ClampFillers(f)]

\* StampCategory as q.setdefault("category", category): a category the
\* model emitted is kept
StampCategoryIfAbsent(q, category) ==
  IF K_category \in DOMAIN q.v THEN q
  ELSE PyDict(MapSet(q.v, K_category, PyStr(category)))

\* q["category"] = category, for a dict q
StampCategory(q, category) == PyDict(MapSet(q.v, K_category, PyStr(category)))

\* for q in questions: q["category"] = category
\* raised is the TypeError of a q that takes no item assignment
RECURSIVE StampItems(_, _, _, _)
StampItems(items, i, category, acc) ==
  IF i > Len(items) THEN [raised |-> FALSE, val |-> PyList(acc)]
  ELSE IF items[i].t # "dict" THEN [raised |-> TRUE, val |-> PyNone]
  ELSE StampItems(items, i + 1, category,
                  Append(acc, StampCategory(items[i], category)))

\* the loop over whatever json.loads returned: a list iterates its items, a
\* dict its keys and a str its characters (str items: TypeError on the
\* assignment), any other value is not iterable (TypeError)
AddCategory(v, category) ==
  IF v.t = "list" THEN StampItems(v.v, 1, category, <<>>)
  ELSE IF v.t = "dict" /\ DOMAIN v.v = {} THEN [raised |-> FALSE, val |-> v]
  ELSE IF v.t = "str" /\ v.v = <<>> THEN [raised |-> FALSE, val |-> v]
  ELSE [raised |-> TRUE, val |-> PyNone]

\* The completion call either raises (kind "raise"), answers with
\* message.content None (kind "none"), or answers with a text.
GenerateQuestions(category, n, f, c) ==
  LET p == BuildPrompt(category, n, f)
      cleaned == CleanContent(c.text)
      parsed == JsonLoads(cleaned)
      stamped == AddCategory(parsed.val, category)
      empty(cl) == [prompt |-> p, cleaned |-> cl, ret |-> PyList(<<>>)]
  IN  IF c.kind = "raise" THEN empty(<<>>)          \* except Exception
      ELSE IF c.kind = "none" THEN empty(<<>>)      \* None.strip(): except Exception
      ELSE IF ~parsed.ok THEN empty(cleaned)        \* except json.JSONDecodeError
      ELSE IF stamped.raised THEN empty(cleaned)    \* except Exception
      ELSE [prompt |-> p, cleaned |-> cleaned, ret |-> stamped.val]

(***************************************************************************)
(* QuestionGenerator.upload_questions                                      *)
(***************************************************************************)
\* IsFalsy as `questions is None`: an empty list passes the guard
IsNone(v) == v.t = "none"

\* `not questions`
IsFalsy(v) ==
  IF v.t \in {"list", "str"} THEN Len(v.v) = 0
  ELSE IF v.t = "dict" THEN DOMAIN v.v = {}
  ELSE IF v.t = "num" THEN v.v[1] = "0"
  ELSE IF v.t = "bool" THEN ~v.v
  ELSE TRUE

RequiredKeys == <<K_text, K_answer, K_category, K_filler_answers>>

\* FormatQuestion handing the record on as it is
FormatQuestionWhole(q) == q

\* the four-key dict built from q
FormatQuestion(q) == PyDict([k \in CharsOf(RequiredKeys) |-> q.v[k]])

\* for q in questions: formatted_questions.append({...})
\* a q without one of the keys raises KeyError, a q that is no dict TypeError
RECURSIVE FormatItems(_, _, _)
FormatItems(items, i, acc) ==
  IF i > Len(items) THEN [raised |-> "none", val |-> acc]
  ELSE IF items[i].t # "dict" THEN [raised |-> "TypeError", val |-> <<>>]
  ELSE IF ~(CharsOf(RequiredKeys) \subseteq DOMAIN items[i].v)
    THEN [raised |-> "KeyError", val |-> <<>>]
  ELSE FormatItems(items, i + 1, Append(acc, FormatQuestion(items[i])))

\* payload = {"questions": formatted_questions}
Payload(formatted) == PyDict(MapSet(EmptyMap, K_questions, PyList(formatted)))

\* response.raise_for_status(): HTTPError for a 4xx or 5xx status
RaiseForStatus(status) == 400 <= status /\ status < 600

\* except requests.exceptions.RequestException
RequestExceptions == {"ConnectionError", "Timeout", "HTTPError"}
\* Caught as `except requests.exceptions.HTTPError`
CaughtHTTPErrorOnly(exc) == exc = "HTTPError"
Caught(exc) == exc \in RequestExceptions

\* what the try block ends with: "none" or the exception raised in it
TryOutcome(h) ==
  IF h.kind # "response" THEN h.kind
  ELSE IF RaiseForStatus(h.status) THEN "HTTPError" ELSE "none"

\* questions is a list, or an empty value of another type as
\* generate_questions may return it; h is what requests.post does
UploadQuestions(qs, h) ==
  LET formatted == FormatItems(qs.v, 1, <<>>)
      exc == TryOutcome(h)
  IN  IF IsFalsy(qs) THEN [ret |-> FALSE, raised |-> "none", posted |-> <<>>]
      ELSE IF formatted.raised # "none"
        THEN [ret |-> FALSE, raised |-> formatted.raised, posted |-> <<>>]
      ELSE IF exc = "none"
        THEN [ret |-> TRUE, raised |-> "none", posted |-> <<Payload(formatted.val)>>]
      ELSE IF Caught(exc)
        THEN [ret |-> FALSE, raised |-> "none", posted |-> <<Payload(formatted.val)>>]
      ELSE [ret |-> FALSE, raised |-> exc, posted |-> <<Payload(formatted.val)>>]

(***************************************************************************)
(* Inputs: texts the completion client may answer with                     *)
(***************************************************************************)
Quoted(chars) == <<"\"">> \o chars \o <<"\"">>
Member(key, valueText) == Quoted(key) \o <<":">> \o valueText

RECURSIVE JoinComma(_)
JoinComma(parts) ==
  IF parts = <<>> THEN <<>>
  ELSE IF Len(parts) = 1 THEN parts[1]
  ELSE parts[1] \o <<",", " ">> \o JoinComma(Tail(parts))

ObjText(members) == <<"{">> \o JoinComma(members) \o <<"}">>
ArrText(elems) == <<"[">> \o JoinComma(elems) \o <<"]">>

M_text == Member(K_text, Quoted(<<"Q">>))
M_answer == Member(K_answer, Quoted(<<"A">>))
M_fillers ==
  Member(K_filler_answers,
         ArrText(<<Quoted(<<"B">>), Quoted(<<"C">>), Quoted(<<"D">>)>>))
M_category == Member(K_category, Quoted(<<"X">>))
M_id == Member(<<"i", "d">>, <<"7">>)

\* the object the prompt asks for
GoodObj == ObjText(<<M_text, M_answer, M_fillers>>)
\* objects the model may answer with instead
OtherObj == ObjText(<<Member(K_text, Quoted(<<"R">>)), M_answer, M_fillers>>)
CategoryObj == ObjText(<<M_text, M_answer, M_category, M_fillers>>)
ExtraObj == ObjText(<<M_id, M_text, M_answer, M_fillers>>)
NoTextObj == ObjText(<<M_answer, M_fillers>>)
NoAnswerObj == ObjText(<<M_text, M_fillers>>)
NoFillersObj == ObjText(<<M_text, M_answer>>)

Sorry == <<"s", "o", "r", "r", "y">>

ArrayBodies ==
  { ArrText(<<>>), ArrText(<<GoodObj>>), ArrText(<<GoodObj, OtherObj>>),
    ArrText(<<CategoryObj>>), ArrText(<<ExtraObj, CategoryObj>>),
    ArrText(<<NoAnswerObj>>), ArrText(<<GoodObj, NoTextObj>>),
    ArrText(<<NoFillersObj>>), ArrText(<<ObjText(<<>>)>>),
    ArrText(<<<<"1">>>>), ArrText(<<Quoted(<<"a">>)>>),
    ArrText(<<ArrText(<<>>)>>), ArrText(<<<<"n", "u", "l", "l">>>>),
    ArrText(<<GoodObj, <<"1">>>>), ArrText(<<Quoted(<<"j", "s", "o", "n">>)>>) }

OtherBodies ==
  { ObjText(<<>>), GoodObj, ObjText(<<Member(K_questions, ArrText(<<GoodObj>>))>>),
    Quoted(<<>>), Quoted(<<"a", "b">>), <<"0">>, <<"1", "2">>, <<"1", "e", "1">>,
    <<"n", "u", "l", "l">>, <<"t", "r", "u", "e">>, <<"f", "a", "l", "s", "e">>,
    Sorry, <<>>, <<"[">>, <<"[", "1", ",", "]">>, <<"j", "s", "o", "n">>,
    Sorry \o <<" ">> \o ArrText(<<GoodObj>>), <<"{", "\"", "a", "\"", "}">> }

\* the Markdown fence around a text
FenceWrap(t) == FenceJson \o <<"\n">> \o t \o <<"\n">> \o Fence

Wrappings(t) ==
  { t, FenceWrap(t), Fence \o <<"\n">> \o t \o <<"\n">> \o Fence,
    <<" ", "\n">> \o t \o <<"\n">>, FenceJson \o t \o Fence }

\* every text of at most MaxMiddle characters between a [ and a ], over the
\* characters the cleaning step looks at
MaxMiddle == 2
TrimAlphabet == {BT, "j", "s", "o", "n", " ", "\n", "\"", "1", ",", "["}

RECURSIVE TextsUpTo(_)
TextsUpTo(n) ==
  IF n = 0 THEN {<<>>}
  ELSE TextsUpTo(n - 1) \cup
       {Append(t, ch) : t \in {x \in TextsUpTo(n - 1) : Len(x) = n - 1},
                        ch \in TrimAlphabet}

BracketTexts == {<<"[">> \o t \o <<"]">> : t \in TextsUpTo(MaxMiddle)}

TextCompletion(t) == [kind |-> "text", text |-> t]
Raises == [kind |-> "raise", text |-> <<>>]
NoContent == [kind |-> "none", text |-> <<>>]

Completions ==
  {Raises, NoContent}
  \cup {TextCompletion(w) : w \in UNION {Wrappings(t) : t \in ArrayBodies \cup OtherBodies}}
  \cup {TextCompletion(t) : t \in BracketTexts}

(***************************************************************************)
(* Inputs: what requests.post may do                                       *)
(***************************************************************************)
Statuses == {101, 102, 199, 200, 201, 204, 299, 300, 301, 304, 399,
             400, 404, 499, 500, 503, 599}

Response(status) == [kind |-> "response", status |-> status]
TransportFailure(kind) == [kind |-> kind, status |-> 0]

HttpOutcomes ==
  {TransportFailure("ConnectionError"), TransportFailure("Timeout")}
  \cup {Response(st) : st \in Statuses}

NoHttp == TransportFailure("unused")
NoCompletion == [kind |-> "unused", text |-> <<>>]
NoPrompt == [num_questions |-> 0, category |-> <<>>, num_fillers |-> 0]

Call(op, i, raw, cleaned, ret) ==
  [op |-> op, idx |-> i, raw |-> raw, cleaned |-> cleaned, ret |-> ret]

(***************************************************************************)
(* main()                                                                  *)
(***************************************************************************)
CATEGORIES ==
  << <<"S", "c", "i", "e", "n", "c", "e">>,
     <<"H", "i", "s", "t", "o", "r", "y">>,
     <<"G", "e", "o", "g", "r", "a", "p", "h", "y">>,
     <<"S", "p", "o", "r", "t", "s">>,
     <<"E", "n", "t", "e", "r", "t", "a", "i", "n", "m", "e", "n", "t">> >>

QUESTIONS_PER_CATEGORY == 5

\* what the model lets the completion client and the endpoint do during main
MainCompletions ==
  { Raises, TextCompletion(Sorry), TextCompletion(ArrText(<<>>)),
    TextCompletion(ObjText(<<>>)),
    TextCompletion(FenceWrap(ArrText(<<GoodObj>>))),
    TextCompletion(ArrText(<<NoAnswerObj>>)) }

MainHttp == {Response(201), Response(500), TransportFailure("Timeout")}

\* the for loop's step to the next category, or out of the loop
NextCategory(i) ==
  [pc |-> IF i + 1 > Len(CATEGORIES) THEN "done" ELSE "generate", idx |-> i + 1]

\* AfterEmpty as `break`: the loop ends at the first empty result
AfterEmptyBreak(i) == [pc |-> "done", idx |-> i]

\* `if not questions: ... continue`
AfterEmpty(i) == NextCategory(i)

\* the end of the loop body, upload_questions having returned
AfterUpload(i) == NextCategory(i)

MainInit ==
  /\ pc = "generate" /\ idx = 1
  /\ args = [category |-> <<>>, num_questions |-> 0, num_fillers |-> 0]
  /\ completion = NoCompletion /\ prompt = NoPrompt
  /\ questions = PyNone /\ http = NoHttp /\ result = PyNone
  /\ raised = "none" /\ posts = <<>> /\ calls = <<>>

\* questions = generator.generate_questions(category=category, ...)
MainGenerate ==
  /\ pc = "generate"
  /\ \E c \in MainCompletions :
       LET g == GenerateQuestions(CATEGORIES[idx], QUESTIONS_PER_CATEGORY, 3, c)
           to == IF IsFalsy(g.ret) THEN AfterEmpty(idx)
                 ELSE [pc |-> "upload", idx |-> idx]
       IN  /\ args' = [category |-> CATEGORIES[idx],
                       num_questions |-> QUESTIONS_PER_CATEGORY, num_fillers |-> 3]
           /\ completion' = c
           /\ prompt' = g.prompt
           /\ questions' = g.ret
           /\ calls' = Append(calls, Call("generate", idx, c.text, g.cleaned, g.ret))
           /\ pc' = to.pc
           /\ idx' = to.idx
  /\ UNCHANGED <<http, result, raised, posts>>

\* if generator.upload_questions(questions): ... else: ...
\* an exception leaving upload_questions leaves main: nothing catches it
MainUpload ==
  /\ pc = "upload"
  /\ \E h \in MainHttp :
       LET u == UploadQuestions(questions, h)
           to == IF u.raised # "none" THEN [pc |-> "crashed", idx |-> idx]
                 ELSE AfterUpload(idx)
       IN  /\ http' = h
           /\ result' = IF u.raised # "none" THEN result ELSE PyBool(u.ret)
           /\ raised' = u.raised
           /\ posts' = posts \o u.posted
           /\ calls' = Append(calls, Call("upload", idx, <<>>, <<>>, PyBool(u.ret)))
           /\ pc' = to.pc
           /\ idx' = to.idx
  /\ UNCHANGED <<args, completion, prompt, questions>>

(***************************************************************************)
(* generate_questions called on its own, then called again with the same   *)
(* answer wrapped in a Markdown fence                                      *)
(***************************************************************************)
CountSlack == 4
QuestionCounts == (1 - CountSlack)..(10 + CountSlack)
FillerCounts == (3 - CountSlack)..(5 + CountSlack)

GenCategories == {CATEGORIES[1], <<"X">>}

GenerateInit ==
  /\ pc = "g_ready" /\ idx = 0
  /\ \/ /\ args \in [category : GenCategories, num_questions : QuestionCounts,
                     num_fillers : FillerCounts]
        /\ completion \in {Raises, TextCompletion(ArrText(<<GoodObj>>))}
     \/ /\ args \in [category : GenCategories,
                     num_questions : {QUESTIONS_PER_CATEGORY}, num_fillers : {3}]
        /\ completion \in Completions
  /\ prompt = NoPrompt /\ questions = PyNone /\ http = NoHttp
  /\ result = PyNone /\ raised = "none" /\ posts = <<>> /\ calls = <<>>

GenerateStep(c, to) ==
  LET g == GenerateQuestions(args.category, args.num_questions, args.num_fillers, c)
  IN  /\ completion' = c
      /\ prompt' = g.prompt
      /\ questions' = g.ret
      /\ calls' = Append(calls, Call("generate", idx, c.text, g.cleaned, g.ret))
      /\ pc' = to
      /\ UNCHANGED <<idx, args, http, result, raised, posts>>

GenerateCall ==
  /\ pc = "g_ready"
  /\ GenerateStep(completion, "g_returned")

GenerateFenced ==
  /\ pc = "g_returned"
  /\ completion.kind = "text"
  /\ GenerateStep(TextCompletion(FenceWrap(completion.text)), "g_again")

GenerateNext == GenerateCall \/ GenerateFenced

SpecGenerate == GenerateInit /\ [][GenerateNext]_vars

(***************************************************************************)
(* upload_questions called on its own                                      *)
(***************************************************************************)
MaxUpload == 2

\* records as generate_questions returns them, complete or not
Record(objText) == StampCategory(JsonLoads(objText).val, CATEGORIES[1])
Records ==
  {Record(t) : t \in {GoodObj, OtherObj, ExtraObj, NoTextObj, NoAnswerObj, NoFillersObj}}
  \cup {JsonLoads(NoFillersObj).val, JsonLoads(GoodObj).val}

RECURSIVE ListsUpTo(_)
ListsUpTo(n) ==
  IF n = 0 THEN {<<>>}
  ELSE ListsUpTo(n - 1) \cup
       {Append(l, r) : l \in {x \in ListsUpTo(n - 1) : Len(x) = n - 1}, r \in Records}

UploadInputs == {PyList(l) : l \in ListsUpTo(MaxUpload)}

UploadInit ==
  /\ pc = "u_ready" /\ idx = 0
  /\ questions \in UploadInputs
  /\ args = [questions |-> questions]
  /\ http \in HttpOutcomes
  /\ completion = NoCompletion /\ prompt = NoPrompt
  /\ result = PyNone /\ raised = "none" /\ posts = <<>> /\ calls = <<>>

UploadCall ==
  /\ pc = "u_ready"
  /\ LET u == UploadQuestions(questions, http)
     IN  /\ result' = IF u.raised # "none" THEN result ELSE PyBool(u.ret)
         /\ raised' = u.raised
         /\ posts' = posts \o u.posted
         /\ calls' = Append(calls, Call("upload", idx, <<>>, <<>>, PyBool(u.ret)))
         /\ pc' = IF u.raised # "none" THEN "u_raised" ELSE "u_returned"
  /\ UNCHANGED <<idx, args, completion, prompt, questions, http>>

UploadNext == UploadCall

SpecUpload == UploadInit /\ [][UploadNext]_vars

Init == MainInit

Next == MainGenerate \/ MainUpload

Spec == Init /\ [][Next]_vars
(***************************************************************************)
(* Properties                                                              *)
(***************************************************************************)
LastCall == calls[Len(calls)]
Returned == pc \in {"g_returned", "g_again"}
Uploaded == pc \in {"u_returned", "u_raised"}
IsEmpty(v) == v.v = <<>>
FourKeys == {K_text, K_answer, K_category, K_filler_answers}

\* a non-empty list of dicts that all carry the four required keys
WellFormed(v) ==
  /\ v.t = "list" /\ v.v # <<>>
  /\ \A i \in DOMAIN v.v : v.v[i].t = "dict" /\ FourKeys \subseteq DOMAIN v.v[i].v

IsArrayOfObjects(v) == v.t = "list" /\ \A i \in DOMAIN v.v : v.v[i].t = "dict"

\* C1: upload_questions returns true exactly when the POST completed with a
\* 2xx status; every other status, 1xx and 3xx included, gives false.
C1_TrueIffStatus2xx ==
  (pc = "u_returned" /\ posts # <<>> /\ http.kind = "response")
    => (result = PyBool(TRUE) <=> http.status \in 200..299)

\* C2: a record without a required key aborts only the current category's
\* step: main goes on to the later categories and ends normally.
C2_ShapeErrorIsolated ==
  raised = "KeyError" => pc \in {"generate", "upload", "done"}

\* C3: generate_questions never raises and returns the empty list whenever
\* the completion call raises, the cleaned text is not valid JSON, or it is
\* valid JSON that is not an array of objects.
C3_FailsToEmptyList ==
  Returned =>
    /\ raised = "none"
    /\ (\/ completion.kind # "text"
        \/ ~JsonLoads(LastCall.cleaned).ok
        \/ ~IsArrayOfObjects(JsonLoads(LastCall.cleaned).val))
         => questions = PyList(<<>>)

Generates == SelectSeq(calls, LAMBDA c : c.op = "generate")

\* C4: main processes the categories in list order, one generate per
\* category, at most one upload per category, right after that category's
\* generate and only when its result was not empty; an empty result or a
\* false return never ends the loop early.
C4_SequentialPerCategory ==
  /\ \A j \in DOMAIN Generates : Generates[j].idx = j
  /\ \A j \in DOMAIN calls :
       calls[j].op = "upload" =>
         /\ j > 1
         /\ calls[j - 1].op = "generate"
         /\ calls[j - 1].idx = calls[j].idx
         /\ ~IsEmpty(calls[j - 1].ret)
  /\ pc = "generate" => idx = Len(Generates) + 1 /\ idx <= Len(CATEGORIES)
  /\ pc = "upload" => LastCall.op = "generate" /\ LastCall.idx = idx
  /\ pc = "done" => Len(Generates) = Len(CATEGORIES)
  /\ pc = "crashed" => raised # "none"

C4_Witness ==
  /\ pc = "done"
  /\ \E j \in DOMAIN calls :
       calls[j].op = "generate" /\ calls[j].idx < Len(CATEGORIES) /\ IsEmpty(calls[j].ret)
  /\ \E j \in DOMAIN calls :
       calls[j].op = "upload" /\ calls[j].idx < Len(CATEGORIES)
         /\ calls[j].ret = PyBool(FALSE)
  /\ \E j \in DOMAIN calls : calls[j].op = "upload" /\ calls[j].ret = PyBool(TRUE)

\* C5: upload_questions of an empty list returns false without a POST, and
\* no POST ever carries an empty questions list.
C5_EmptyShortCircuit ==
  /\ (Uploaded /\ args.questions = PyList(<<>>))
       => pc = "u_returned" /\ result = PyBool(FALSE) /\ posts = <<>>
  /\ \A j \in DOMAIN posts : posts[j].v[K_questions].v # <<>>

C5_Witness ==
  pc = "u_returned" /\ args.questions = PyList(<<>>) /\ http = Response(200)

\* C6: for a non-empty list of records with the four required keys there is
\* exactly one POST, its body is {"questions": L}, L has the input's length
\* and order, each element has exactly the four keys with the input's
\* values, and the input is left as it was.
C6_PayloadShape ==
  (Uploaded /\ WellFormed(args.questions)) =>
    /\ raised = "none"
    /\ Len(posts) = 1
    /\ posts[1].t = "dict" /\ DOMAIN posts[1].v = {K_questions}
    /\ LET L == posts[1].v[K_questions]
           in == args.questions.v
       IN  /\ L.t = "list" /\ Len(L.v) = Len(in)
           /\ \A i \in DOMAIN in :
                /\ L.v[i].t = "dict"
                /\ DOMAIN L.v[i].v = FourKeys
                /\ \A k \in FourKeys : L.v[i].v[k] = in[i].v[k]
    /\ questions = args.questions

C6_Witness ==
  /\ pc = "u_returned" /\ WellFormed(args.questions)
  /\ Len(args.questions.v) = 2
  /\ args.questions.v[1] # args.questions.v[2]
  /\ DOMAIN args.questions.v[1].v # FourKeys
  /\ Len(posts) = 1

\* C7: every question of a non-empty result of generate_questions has the
\* category argument as its category, also when the model's object came
\* with a category of its own.
C7_CategoryStamped ==
  (Returned /\ ~IsEmpty(questions)) =>
    /\ questions.t = "list"
    /\ \A i \in DOMAIN questions.v :
         /\ questions.v[i].t = "dict"
         /\ K_category \in DOMAIN questions.v[i].v
         /\ questions.v[i].v[K_category] = PyStr(args.category)

C7_Witness ==
  /\ pc = "g_returned" /\ ~IsEmpty(questions)
  /\ LET emitted == JsonLoads(LastCall.cleaned).val.v
     IN  \E i \in DOMAIN emitted :
           /\ K_category \in DOMAIN emitted[i].v
           /\ emitted[i].v[K_category] # PyStr(args.category)

CoerceInto(lo, hi, n) == IF n < lo THEN lo ELSE IF n > hi THEN hi ELSE n

\* C8: the prompt is built with num_questions coerced into 1..10 and
\* num_fillers into 3..5, in-range counts unchanged, and a count out of
\* range does not make the call fail.
C8_CountsClamped ==
  Returned =>
    /\ prompt.num_questions = CoerceInto(1, 10, args.num_questions)
    /\ prompt.num_fillers = CoerceInto(3, 5, args.num_fillers)
    /\ prompt.category = args.category
    /\ raised = "none"
    /\ calls[1].raw = ArrText(<<GoodObj>>) => Len(calls[1].ret.v) = 1

C8_Witness ==
  /\ pc = "g_returned"
  /\ args.num_questions > 10 /\ args.num_fillers < 3
  /\ prompt.num_questions = 10 /\ prompt.num_fillers = 3
  /\ ~IsEmpty(questions)

\* C9: when the POST fails at transport level (connection error, timeout)
\* upload_questions returns false: no exception leaves it and the request
\* is sent once.
C9_TransportFailureIsFalse ==
  (Uploaded /\ WellFormed(args.questions)
     /\ http.kind \in {"ConnectionError", "Timeout"}) =>
    /\ pc = "u_returned"
    /\ raised = "none"
    /\ result = PyBool(FALSE)
    /\ Len(posts) = 1

C9_Witness ==
  /\ pc = "u_returned" /\ http.kind = "Timeout"
  /\ Len(posts) = 1 /\ result = PyBool(FALSE)

IsArrayText(t) == Len(t) >= 2 /\ t[1] = "[" /\ t[Len(t)] = "]"

\* C10: for a text A that starts with [ and ends with ], cleaning A inside
\* a Markdown json fence gives the text that cleaning A gives, which is A
\* itself, and generate_questions returns the same for both.
C10_FenceRoundTrip ==
  (pc = "g_again" /\ IsArrayText(calls[1].raw)) =>
    /\ calls[2].raw = FenceWrap(calls[1].raw)
    /\ calls[2].cleaned = calls[1].cleaned
    /\ calls[1].cleaned = calls[1].raw
    /\ calls[2].ret = calls[1].ret

C10_Witness ==
  /\ pc = "g_again" /\ IsArrayText(calls[1].raw)
  /\ calls[2].raw = FenceWrap(calls[1].raw)
  /\ ~IsEmpty(calls[2].ret)
====
